---- MODULE Spec2Model ----
(***************************************************************************)
(* A model of parameters/iteration.py: the RangesIterator class.           *)
(*                                                                         *)
(* The state is the iterator object's private fields, the frames of the    *)
(* recursive __ranges_expand, the structured array it threads through the  *)
(* recursion, and the generator created by __iter__.  Parameter values are *)
(* integers; NaN is a distinguished integer.  The Parameters instance      *)
(* (self.p) is not part of the file: P_range models its range() method     *)
(* from the interface the specification gives for the resolver.            *)
(***************************************************************************)
EXTENDS Integers, Sequences, FiniteSets, TLC

VARIABLES
    ranges,           \* self.__ranges: a sequence of levels
    params,           \* self.__params: the background context
    masks,            \* self.__masks
    function,         \* self.__function
    function_kwargs,  \* self.__function_kwargs
    nprocs,           \* self.__nprocs
    cache,            \* self.__ranges_eval
    op,               \* the public operation in progress ("none" when idle)
    stack,            \* the frames of __ranges_expand, outermost first
    supplied,         \* the ranges_eval argument of the outermost call, as it was then
    grid,             \* the ranges_eval array threaded through the recursion
    allocated,        \* number of arrays created so far (the last object identity)
    indicies,         \* the shared list of retained leaf indicies
    ctx,              \* the params dictionary shared by all frames
    outcome,          \* what the last public operation returned or raised
    gen,              \* the generator __iter__ created
    range_calls,      \* number of calls of self.p.range so far
    generated,        \* number of descriptors self.p.range has turned into values so far
    resolved,         \* per index prefix, what self.p.range returned there
    maskLog,          \* the mask evaluations of the running expansion
    lastSet,          \* the last assignment made through a property setter, and when
    budget            \* operations and assignments still allowed in this behaviour

vars == <<ranges, params, masks, function, function_kwargs, nprocs, cache, op,
          stack, supplied, grid, allocated, indicies, ctx, outcome, gen, range_calls,
          generated, resolved, maskLog, lastSet, budget>>

config == <<ranges, params, masks, function, function_kwargs, nprocs>>
expansion == <<stack, supplied, grid, allocated, indicies, ctx, resolved, maskLog>>

(***************************************************************************)
(* Bounds of the model.                                                    *)
(***************************************************************************)
MaxLevels == 3     \* levels in a ranges list
MaxCount == 2      \* values a descriptor resolves to
MaxMasks == 2      \* masks in a list
MaxOps == 2        \* expansions and passes started per behaviour
MaxPassLevels == 2 \* levels of the ranges lists a configured iterator is given
MaxSets == 1       \* assignments through property setters per behaviour

(***************************************************************************)
(* Values.                                                                 *)
(***************************************************************************)
NaN == -1
IsNaN(v) == v = NaN

Empty == <<>>                       \* the empty dictionary {}
Min(a, b) == IF a < b THEN a ELSE b
Last(s) == s[Len(s)]
Front(s) == SubSeq(s, 1, Len(s) - 1)
Zeros(n) == [j \in 1..n |-> 0]
IsPrefix(p, s) == Len(p) <= Len(s) /\ SubSeq(s, 1, Len(p)) = p

\* dict.update: the entries of d with those of e written over them
Update(d, e) == [key \in DOMAIN d \cup DOMAIN e |-> IF key \in DOMAIN e THEN e[key] ELSE d[key]]

(***************************************************************************)
(* The structured array ranges_eval: its shape, its field names in dtype   *)
(* order, and per field one value per index.  Arrays are objects: id tells *)
(* one array from another, and a write through one reference is seen       *)
(* through every reference to the same array.  None has no shape.          *)
(***************************************************************************)
None == [id |-> 0, shape |-> <<>>, names |-> <<>>, data |-> <<>>]
Content(a) == [shape |-> a.shape, names |-> a.names, data |-> a.data]
Same(a, b) == a # None /\ a.id = b.id                \* a is b
Through(ref, written) == IF Same(ref, written) THEN written ELSE ref

RECURSIVE Indices(_)
Indices(shape) ==
    IF shape = <<>> THEN {<<>>}
    ELSE {Append(p, i) : p \in Indices(Front(shape)), i \in 0..(Last(shape) - 1)}

Ndim(a) == Len(a.shape)
Fields(a) == {a.names[j] : j \in DOMAIN a.names}
InBounds(a, idx) == Len(idx) <= Ndim(a) /\ \A d \in DOMAIN idx : idx[d] < a.shape[d]
AnyNaN(a, param) == \E idx \in Indices(a.shape) : IsNaN(a.data[param][idx])

\* ranges_eval[param][s] = v with s = prefix + (slice(None),)*(ndim-len(prefix))
SetSlice(a, param, prefix, v) ==
    [a EXCEPT !.data[param] =
        [idx \in Indices(a.shape) |-> IF IsPrefix(prefix, idx) THEN v ELSE a.data[param][idx]]]

\* the cached values read at the first prefix, whatever the iteration
TakeAxisAtZero(a, param, iteration) ==
    [i \in 1..a.shape[Len(iteration) + 1] |->
        a.data[param][Zeros(Len(iteration)) \o <<i - 1>> \o Zeros(Ndim(a) - Len(iteration) - 1)]]

\* ranges_eval[param][iteration + (slice(None),) + (0,)*(ndim-len(iteration)-1)]
TakeAxis(a, param, iteration) ==
    [i \in 1..a.shape[Len(iteration) + 1] |->
        a.data[param][iteration \o <<i - 1>> \o Zeros(Ndim(a) - Len(iteration) - 1)]]

(***************************************************************************)
(* A level of ranges (pam_ranges) is a dictionary; it is kept as the       *)
(* sequence of its items in the dictionary's iteration order.              *)
(***************************************************************************)
Keys(pam_ranges) == [j \in DOMAIN pam_ranges |-> pam_ranges[j].param]
KeySet(pam_ranges) == {pam_ranges[j].param : j \in DOMAIN pam_ranges}
RangeOf(pam_ranges, p) ==
    pam_ranges[CHOOSE j \in DOMAIN pam_ranges : pam_ranges[j].param = p].range

(***************************************************************************)
(* Entries of the keyword context handed to self.p.range: a number, a      *)
(* range descriptor, or an array of concrete values.                       *)
(***************************************************************************)
NoRange == [start |-> 0, count |-> 0, dep |-> "", stoch |-> FALSE, nan |-> -1, nanIf |-> 0, delta |-> 0]
Num(v) == [kind |-> "num", num |-> v, vals |-> <<>>, range |-> NoRange]
Rng(d) == [kind |-> "range", num |-> 0, vals |-> <<>>, range |-> d]
Vals(s) == [kind |-> "vals", num |-> 0, vals |-> s, range |-> NoRange]

\* tparams = params.copy(); tparams.update(pam_ranges); tparams.update(pam_values)
TParams(prm, pam_ranges, pam_values) ==
    Update(Update([p \in DOMAIN prm |-> Num(prm[p])],
                  [p \in KeySet(pam_ranges) |-> Rng(RangeOf(pam_ranges, p))]),
           [p \in DOMAIN pam_values |-> Vals(pam_values[p])])

(***************************************************************************)
(* The resolver, Parameters.range(names, **context).  A descriptor yields  *)
(* `count` values start, start+1, ... shifted by the context value of the  *)
(* parameter it depends on and, for a stochastic sampler, by the number of *)
(* calls made so far (so that no two calls agree).  A concrete array given *)
(* in the context is returned as it is.                                    *)
(***************************************************************************)
Shift(d, tparams, calls) ==
    (IF d.dep \in DOMAIN tparams /\ tparams[d.dep].kind = "num" THEN 3 * tparams[d.dep].num ELSE 0)
    + (IF d.stoch THEN calls ELSE 0)

Generate(d, tparams, calls) ==
    LET u == Shift(d, tparams, calls)
        n == d.count + (IF u % 2 = 1 THEN d.delta ELSE 0)
    IN  [i \in 1..n |-> IF i - 1 = d.nan /\ u >= d.nanIf THEN NaN ELSE d.start + (i - 1) + u]

P_range(names, tparams, calls) ==
    [p \in {names[j] : j \in DOMAIN names} |->
        CASE tparams[p].kind = "vals" -> tparams[p].vals
          [] tparams[p].kind = "range" -> Generate(tparams[p].range, tparams, calls)
          [] OTHER -> <<tparams[p].num>>]

(***************************************************************************)
(* Masks: mask(indicies, ranges, params) -> boolean.                       *)
(***************************************************************************)
RECURSIVE Sum(_)
Sum(s) == IF s = <<>> THEN 0 ELSE s[1] + Sum(Tail(s))

MaskNames == {"deny", "even", "first"}
Mask(m, index, rngs, prm) ==
    CASE m = "deny"  -> FALSE
      [] m = "even"  -> Sum(index) % 2 = 0
      [] m = "first" -> index[1] = 0
      [] OTHER       -> TRUE

\* masks is None, a list of masks, or some other object (a tuple of masks)
NoMasks == [kind |-> "None", fns |-> <<>>]
MaskList(fns) == [kind |-> "list", fns |-> fns]

\* all(...) in place of any(...)
AllMasks(fns, index, rngs, prm) == \A j \in DOMAIN fns : Mask(fns[j], index, rngs, prm)

\* any([mask(indicies=..., ranges=..., params=...) for mask in masks])
AnyMask(fns, index, rngs, prm) == \E j \in DOMAIN fns : Mask(fns[j], index, rngs, prm)

\* "if masks:" in place of the test of line 330: an empty list filters nothing
RetainedUnlessEmpty(msk, index, rngs, prm) ==
    IF msk.kind = "list" /\ msk.fns # <<>> THEN AnyMask(msk.fns, index, rngs, prm) ELSE TRUE

\* lines 330-334: is the leaf appended to indicies?
Retained(msk, index, rngs, prm) ==
    IF msk.kind = "list" THEN AnyMask(msk.fns, index, rngs, prm) ELSE TRUE

(***************************************************************************)
(* __extend_ranges(ranges_eval, labels, size)                              *)
(***************************************************************************)
\* an extension that fills every field with NaN, not only the new ones
ExtendRangesFillsAll(a, labels, size, id) ==
    LET new == {labels[j] : j \in DOMAIN labels}
        shape == IF a = None THEN <<size>> ELSE Append(a.shape, size)
    IN  [id |-> id, shape |-> shape, names |-> a.names \o labels,
         data |-> [p \in Fields(a) \cup new |-> [idx \in Indices(shape) |-> NaN]]]

\* an extension whose new dimension has one cell too many
ExtendRangesOneMore(a, labels, size, id) ==
    LET new == {labels[j] : j \in DOMAIN labels}
        shape == IF a = None THEN <<size + 1>> ELSE Append(a.shape, size + 1)
    IN  [id |-> id, shape |-> shape, names |-> a.names \o labels,
         data |-> [p \in Fields(a) \cup new |->
                      [idx \in Indices(shape) |->
                          IF p \in new THEN NaN ELSE a.data[p][Front(idx)]]]]

ExtendRanges(a, labels, size, id) ==
    LET new == {labels[j] : j \in DOMAIN labels}
        shape == IF a = None THEN <<size>> ELSE Append(a.shape, size)
    IN  [id |-> id,
         shape |-> shape,
         names |-> a.names \o labels,
         data  |-> [p \in Fields(a) \cup new |->
                      [idx \in Indices(shape) |->
                          IF p \in new THEN NaN ELSE a.data[p][Front(idx)]]]]

(***************************************************************************)
(* __ranges_expand, lines 283-310: the part of a call before its loop.     *)
(* The result names the exception raised, if any.                          *)
(***************************************************************************)
Frame(level, iteration) ==
    [level |-> level, iteration |-> iteration, pam_values |-> Empty,
     count |-> 0, i |-> 0, pc |-> "enter"]

\* a reuse test that never finds a cached value
NeverReused(a, pam_ranges, nlevels) == {}

\* line 295: the parameters of the level whose values ranges_eval already holds
Reused(a, pam_ranges, nlevels) ==
    {p \in KeySet(pam_ranges) :
        a # None /\ Ndim(a) = nlevels /\ p \in Fields(a) /\ ~AnyNaN(a, p)}

EnterCall(f, a, prm, rngs, calls, id) ==
    LET fail(e) == [error |-> e, pam_values |-> Empty, count |-> 0, grid |-> a,
                    extended |-> FALSE, called |-> FALSE, generated |-> 0]
    IN
    IF f.level >= Len(rngs) THEN fail("IndexError")
    ELSE
    LET pam_ranges == rngs[f.level + 1]
        reused == Reused(a, pam_ranges, Len(rngs))
    IN
    IF reused # {} /\ ~InBounds(a, f.iteration \o Zeros(Ndim(a) - Len(f.iteration)))
    THEN fail("IndexError")
    ELSE
    LET cached == [p \in reused |-> TakeAxis(a, p, f.iteration)]
        tparams == TParams(prm, pam_ranges, cached)
        pam_values == P_range(Keys(pam_ranges), tparams, calls)
        fresh == Cardinality({p \in KeySet(pam_ranges) : tparams[p].kind = "range"})
    IN
    IF pam_ranges = <<>> THEN [fail("NameError") EXCEPT !.called = TRUE]
    ELSE
    LET param == Last(Keys(pam_ranges))    \* the loop variable left by line 294
        c == Len(pam_values[param])
        count == c                          \* count is None at line 305
    IN
    IF c # count
    THEN [fail("ValueError: not consistent in count") EXCEPT !.called = TRUE, !.generated = fresh]
    ELSE IF a = None \/ Ndim(a) < f.level + 1
    THEN IF KeySet(pam_ranges) \cap Fields(a) # {}
         THEN [fail("ValueError") EXCEPT !.called = TRUE, !.generated = fresh]
         ELSE [error |-> "", pam_values |-> pam_values, count |-> count,
               grid |-> ExtendRanges(a, Keys(pam_ranges), count, id),
               extended |-> TRUE, called |-> TRUE, generated |-> fresh]
    ELSE [error |-> "", pam_values |-> pam_values, count |-> count, grid |-> a,
          extended |-> FALSE, called |-> TRUE, generated |-> fresh]

(***************************************************************************)
(* Lines 319-324 for one index i: per parameter, in the dictionary's       *)
(* order, write the Grid, reject NaN, update the shared context.           *)
(***************************************************************************)
\* the same loop without the NaN test of lines 321-322
RECURSIVE UpdateParamsUnchecked(_, _, _, _, _, _)
UpdateParamsUnchecked(keys, pam_values, i, current_iteration, a, prm) ==
    IF keys = <<>> THEN [error |-> "", param |-> "", grid |-> a, ctx |-> prm]
    ELSE
    LET param == Head(keys)
        pam_value == pam_values[param]
    IN
    IF i >= Len(pam_value) THEN [error |-> "IndexError", param |-> param, grid |-> a, ctx |-> prm]
    ELSE IF param \notin Fields(a) THEN [error |-> "ValueError", param |-> param, grid |-> a, ctx |-> prm]
    ELSE IF ~InBounds(a, current_iteration) THEN [error |-> "IndexError", param |-> param, grid |-> a, ctx |-> prm]
    ELSE UpdateParamsUnchecked(Tail(keys), pam_values, i, current_iteration,
                               SetSlice(a, param, current_iteration, pam_value[i + 1]),
                               Update(prm, [q \in {param} |-> pam_value[i + 1]]))

RECURSIVE UpdateParams(_, _, _, _, _, _)
UpdateParams(keys, pam_values, i, current_iteration, a, prm) ==
    IF keys = <<>> THEN [error |-> "", param |-> "", grid |-> a, ctx |-> prm]
    ELSE
    LET param == Head(keys)
        pam_value == pam_values[param]
    IN
    IF i >= Len(pam_value) THEN [error |-> "IndexError", param |-> param, grid |-> a, ctx |-> prm]
    ELSE IF param \notin Fields(a) THEN [error |-> "ValueError", param |-> param, grid |-> a, ctx |-> prm]
    ELSE IF ~InBounds(a, current_iteration) THEN [error |-> "IndexError", param |-> param, grid |-> a, ctx |-> prm]
    ELSE
    LET written == SetSlice(a, param, current_iteration, pam_value[i + 1])
    IN
    IF IsNaN(pam_value[i + 1])
    THEN [error |-> "ValueError: Bad number", param |-> param, grid |-> written, ctx |-> prm]
    ELSE UpdateParams(Tail(keys), pam_values, i, current_iteration, written,
                      Update(prm, [q \in {param} |-> pam_value[i + 1]]))

(***************************************************************************)
(* What a public operation hands back: its return value or its exception.  *)
(***************************************************************************)
NoOutcome == [op |-> "none", status |-> "none", error |-> "", param |-> "", grid |-> None, indicies |-> <<>>]
Returned(o, a, idxs) == [op |-> o, status |-> "ok", error |-> "", param |-> "", grid |-> a, indicies |-> idxs]
Raised(o, e, param) == [op |-> o, status |-> "error", error |-> e, param |-> param, grid |-> None, indicies |-> <<>>]

NoGen == [state |-> "none", grid |-> None, indicies |-> <<>>, pos |-> 0,
          pending |-> {}, yielded |-> <<>>, called |-> <<>>, resolved |-> Empty]
NoSet == [field |-> "", valid |-> TRUE, accepted |-> TRUE, ops |-> 0]

Idle == op = "none"
Top == stack[Len(stack)]
Current == Top.iteration \o <<Top.i>>          \* current_iteration, line 313

\* an exception leaves __ranges_expand and the public operation that called it
Raise(e, param) ==
    /\ op' = "none"
    /\ outcome' = Raised(op, e, param)
    /\ gen' = IF op = "iter" THEN [gen EXCEPT !.state = "failed"] ELSE gen

\* line 277: self.__ranges_expand(masks=self.masks, params=self.params.copy(),
\*                                ranges_eval=self.__ranges_eval)
StartExpansion(kind) ==
    /\ op' = kind
    /\ stack' = <<Frame(0, <<>>)>>
    /\ supplied' = cache
    /\ grid' = cache
    /\ indicies' = <<>>
    /\ ctx' = params
    /\ resolved' = Empty
    /\ maskLog' = <<>>

(***************************************************************************)
(* Public operations that expand.                                          *)
(***************************************************************************)
\* ranges_expand(), lines 263-277
RangesExpand ==
    /\ Idle /\ budget.ops > 0
    /\ budget' = [budget EXCEPT !.ops = @ - 1]
    /\ StartExpansion("ranges_expand")
    /\ UNCHANGED <<config, cache, allocated, outcome, gen, range_calls, generated, lastSet>>

\* the ranges_eval property, lines 243-258, with nothing cached
GetRangesEvalExpand ==
    /\ Idle /\ budget.ops > 0
    /\ cache = None
    /\ budget' = [budget EXCEPT !.ops = @ - 1]
    /\ StartExpansion("ranges_eval")
    /\ UNCHANGED <<config, cache, allocated, outcome, gen, range_calls, generated, lastSet>>

\* the ranges_eval property with a cached array: line 258 alone
GetRangesEvalCached ==
    /\ Idle /\ budget.ops > 0
    /\ cache # None
    /\ budget' = [budget EXCEPT !.ops = @ - 1]
    /\ outcome' = Returned("ranges_eval (cached)", cache, <<>>)
    /\ UNCHANGED <<config, cache, op, expansion, gen, range_calls, generated, lastSet>>

\* the ranges_eval setter, lines 259-261: None, or an array the caller was handed
SetRangesEval ==
    /\ Idle /\ budget.sets > 0
    /\ \E a \in {None} \cup (IF outcome.status = "ok" THEN {outcome.grid} ELSE {}) :
          /\ a # cache
          /\ Ndim(a) <= Len(ranges)
          /\ cache' = a
    /\ lastSet' = [field |-> "ranges_eval", valid |-> TRUE, accepted |-> TRUE, ops |-> budget.ops]
    /\ budget' = [budget EXCEPT !.sets = @ - 1]
    /\ UNCHANGED <<config, op, expansion, outcome, gen, range_calls, generated>>

(***************************************************************************)
(* The steps of __ranges_expand, lines 279-336.                            *)
(***************************************************************************)
\* lines 283-310 of the innermost call
Enter ==
    /\ ~Idle /\ stack # <<>> /\ Top.pc = "enter"
    /\ LET r == EnterCall(Top, grid, ctx, ranges, range_calls, allocated + 1) IN
        /\ range_calls' = IF r.called THEN range_calls + 1 ELSE range_calls
        /\ generated' = generated + r.generated
        /\ allocated' = IF r.extended THEN allocated + 1 ELSE allocated
        /\ IF r.error # ""
           THEN /\ Raise(r.error, "")
                /\ UNCHANGED <<stack, grid, resolved>>
           ELSE /\ stack' = [stack EXCEPT ![Len(stack)] =
                       [@ EXCEPT !.pam_values = r.pam_values, !.count = r.count,
                                 !.i = 0, !.pc = "loop"]]
                /\ grid' = r.grid
                /\ resolved' = [k \in DOMAIN resolved \cup {Top.iteration} |->
                                   IF k = Top.iteration THEN r.pam_values ELSE resolved[k]]
                /\ UNCHANGED <<op, outcome, gen>>
    /\ UNCHANGED <<config, cache, supplied, indicies, ctx, maskLog, lastSet, budget>>

\* lines 312-324 for the index Top.i
UpdateIndex ==
    /\ ~Idle /\ stack # <<>> /\ Top.pc = "loop" /\ Top.i < Top.count
    /\ LET r == UpdateParams(Keys(ranges[Top.level + 1]), Top.pam_values, Top.i,
                             Current, grid, ctx) IN
        /\ grid' = r.grid
        /\ cache' = Through(cache, r.grid)
        /\ ctx' = r.ctx
        /\ IF r.error # ""
           THEN /\ op' = "none"
                /\ outcome' = Raised(op, r.error, r.param)
                /\ gen' = IF op = "iter" THEN [gen EXCEPT !.state = "failed"]
                                         ELSE [gen EXCEPT !.grid = Through(@, r.grid)]
                /\ UNCHANGED stack
           ELSE /\ stack' = [stack EXCEPT ![Len(stack)].pc = "visit"]
                /\ outcome' = [outcome EXCEPT !.grid = Through(@, r.grid)]
                /\ gen' = [gen EXCEPT !.grid = Through(@, r.grid)]
                /\ UNCHANGED op
    /\ UNCHANGED <<config, supplied, allocated, indicies, resolved, maskLog, range_calls, generated,
                   lastSet, budget>>

\* lines 326-328: the recursive call for the next level
Recurse ==
    /\ ~Idle /\ stack # <<>> /\ Top.pc = "visit"
    /\ Top.level < Len(ranges) - 1
    /\ stack' = Append([stack EXCEPT ![Len(stack)].pc = "wait"],
                       Frame(Top.level + 1, Current))
    /\ UNCHANGED <<config, cache, op, supplied, grid, allocated, indicies, ctx, outcome, gen,
                   range_calls, generated, resolved, maskLog, lastSet, budget>>

\* the leaf appended as iteration, the prefix, in place of current_iteration
LeafAppendsPrefix ==
    /\ ~Idle /\ stack # <<>> /\ Top.pc = "visit"
    /\ ~(Top.level < Len(ranges) - 1)
    /\ maskLog' = IF masks.kind = "list"
                  THEN maskLog \o [j \in DOMAIN masks.fns |->
                          [mask |-> masks.fns[j], index |-> Current, params |-> ctx]]
                  ELSE maskLog
    /\ indicies' = IF Retained(masks, Current, ranges, ctx)
                   THEN Append(indicies, Top.iteration) ELSE indicies
    /\ stack' = [stack EXCEPT ![Len(stack)] = [@ EXCEPT !.i = @ + 1, !.pc = "loop"]]
    /\ UNCHANGED <<config, cache, op, supplied, grid, allocated, ctx, outcome, gen,
                   range_calls, generated, resolved, lastSet, budget>>

\* any(...) over a generator: the masks after the first true one are not called
LeafShortCircuits ==
    /\ ~Idle /\ stack # <<>> /\ Top.pc = "visit"
    /\ ~(Top.level < Len(ranges) - 1)
    /\ maskLog' = IF masks.kind = "list"
                  THEN LET hits == {j \in DOMAIN masks.fns : Mask(masks.fns[j], Current, ranges, ctx)}
                           last == IF hits = {} THEN Len(masks.fns)
                                   ELSE CHOOSE j \in hits : \A k \in hits : j <= k
                       IN  maskLog \o [j \in 1..last |->
                                         [mask |-> masks.fns[j], index |-> Current, params |-> ctx]]
                  ELSE maskLog
    /\ indicies' = IF Retained(masks, Current, ranges, ctx)
                   THEN Append(indicies, Current) ELSE indicies
    /\ stack' = [stack EXCEPT ![Len(stack)] = [@ EXCEPT !.i = @ + 1, !.pc = "loop"]]
    /\ UNCHANGED <<config, cache, op, supplied, grid, allocated, ctx, outcome, gen,
                   range_calls, generated, resolved, lastSet, budget>>

\* lines 329-334: at the deepest level, the masks decide on the leaf
Leaf ==
    /\ ~Idle /\ stack # <<>> /\ Top.pc = "visit"
    /\ ~(Top.level < Len(ranges) - 1)
    /\ maskLog' = IF masks.kind = "list"
                  THEN maskLog \o [j \in DOMAIN masks.fns |->
                          [mask |-> masks.fns[j], index |-> Current, params |-> ctx]]
                  ELSE maskLog
    /\ indicies' = IF Retained(masks, Current, ranges, ctx)
                   THEN Append(indicies, Current) ELSE indicies
    /\ stack' = [stack EXCEPT ![Len(stack)] = [@ EXCEPT !.i = @ + 1, !.pc = "loop"]]
    /\ UNCHANGED <<config, cache, op, supplied, grid, allocated, ctx, outcome, gen,
                   range_calls, generated, resolved, lastSet, budget>>

\* line 336 of a recursive call, and line 328 of its caller
Return ==
    /\ ~Idle /\ Len(stack) > 1 /\ Top.pc = "loop" /\ ~(Top.i < Top.count)
    /\ stack' = [Front(stack) EXCEPT ![Len(stack) - 1] = [@ EXCEPT !.i = @ + 1, !.pc = "loop"]]
    /\ UNCHANGED <<config, cache, op, supplied, grid, allocated, indicies, ctx, outcome, gen,
                   range_calls, generated, resolved, maskLog, lastSet, budget>>

Expanded == Len(stack) = 1 /\ Top.pc = "loop" /\ ~(Top.i < Top.count)

\* a ranges_expand() that keeps the array it returns
RangesExpandReturnStores ==
    /\ op = "ranges_expand" /\ Expanded
    /\ op' = "none"
    /\ stack' = <<>>
    /\ cache' = grid
    /\ outcome' = Returned(op, grid, indicies)
    /\ UNCHANGED <<config, supplied, grid, allocated, indicies, ctx, gen, range_calls, generated,
                   resolved, maskLog, lastSet, budget>>

\* line 336 of the outermost call, returning from ranges_expand()
RangesExpandReturn ==
    /\ op = "ranges_expand" /\ Expanded
    /\ op' = "none"
    /\ stack' = <<>>
    /\ outcome' = Returned(op, grid, indicies)
    /\ UNCHANGED <<config, cache, supplied, grid, allocated, indicies, ctx, gen, range_calls, generated,
                   resolved, maskLog, lastSet, budget>>

\* line 257: self.__ranges_eval = self.ranges_expand()[0]
GetRangesEvalReturn ==
    /\ op = "ranges_eval" /\ Expanded
    /\ op' = "none"
    /\ stack' = <<>>
    /\ cache' = grid
    /\ outcome' = Returned(op, grid, <<>>)
    /\ UNCHANGED <<config, supplied, grid, allocated, indicies, ctx, gen, range_calls, generated,
                   resolved, maskLog, lastSet, budget>>

(***************************************************************************)
(* The inputs: ranges lists, background contexts, mask lists.              *)
(***************************************************************************)
LevelNames == <<"x", "y", "z", "w">>

\* the descriptor of level L (from 0): it depends on the level above it
Desc(L, c) ==
    [start |-> 10 * L, count |-> c, dep |-> IF L = 0 THEN "" ELSE LevelNames[L],
     stoch |-> FALSE, nan |-> -1, nanIf |-> 0, delta |-> 0]

Item(name, d) == [param |-> name, range |-> d]

\* n levels of one parameter each, with the given value counts
Plain(cs) == [L \in DOMAIN cs |-> <<Item(LevelNames[L], Desc(L - 1, cs[L]))>>]

CountLists == UNION {[1..n -> 1..MaxCount] : n \in 1..MaxLevels}
PlainRanges == {Plain(cs) : cs \in CountLists}

\* every descriptor drawn from a stochastic sampler
Stochastic(r) ==
    [L \in DOMAIN r |-> [j \in DOMAIN r[L] |-> [r[L][j] EXCEPT !.range.stoch = TRUE]]]

\* the descriptor of level L resolves to NaN at position pos once its shift reaches from
WithNaN(r, L, pos, from) ==
    [r EXCEPT ![L] = [j \in DOMAIN r[L] |-> [r[L][j] EXCEPT !.range.nan = pos, !.range.nanIf = from]]]

\* the count of the deepest level changes with the prefix
WithDelta(r, d) ==
    [r EXCEPT ![Len(r)] = [j \in DOMAIN r[Len(r)] |-> [r[Len(r)][j] EXCEPT !.range.delta = d]]]

\* a second parameter k in level L, first or last in the dictionary's order
WithSecond(r, L, c, first) ==
    LET k == Item("k", [Desc(L - 1, c) EXCEPT !.start = 5])
    IN  [r EXCEPT ![L] = IF first THEN <<k>> \o @ ELSE @ \o <<k>>]

NaNRanges ==
    UNION {{WithNaN(r, L, pos, from) : L \in DOMAIN r, pos \in 0..(MaxCount - 1), from \in 0..1}
           : r \in PlainRanges}
DeltaRanges == {WithDelta(r, d) : r \in {q \in PlainRanges : Len(q) > 1}, d \in {-1, 1}}
SecondRanges == {WithSecond(r, 1, c, first) : r \in PlainRanges, c \in 1..MaxCount, first \in BOOLEAN}

RichRanges ==
    PlainRanges \cup {Stochastic(r) : r \in PlainRanges \cup NaNRanges}
                \cup NaNRanges \cup DeltaRanges \cup SecondRanges

ParamChoices == {Empty, [p \in {"a", "x"} |-> IF p = "a" THEN 7 ELSE 9]}

RECURSIVE SeqsUpTo(_, _)
SeqsUpTo(S, n) ==
    IF n = 0 THEN {<<>>}
    ELSE LET shorter == SeqsUpTo(S, n - 1)
         IN  shorter \cup {Append(q, e) : q \in {t \in shorter : Len(t) = n - 1}, e \in S}

MaskChoices == {NoMasks} \cup {MaskList(fns) : fns \in SeqsUpTo(MaskNames, MaxMasks)}

NoProcs == [none |-> TRUE, n |-> 0]        \* nprocs = None
Procs(n) == [none |-> FALSE, n |-> n]

BasicRanges ==
    {<<>>} \cup {Plain(cs) : cs \in {c \in CountLists : Len(c) <= MaxPassLevels /\ \A L \in DOMAIN c : c[L] = MaxCount}}
BasicMasks == {NoMasks, MaskList(<<>>), MaskList(<<"even">>)}
KwargChoices == {Empty, [p \in {"scale"} |-> 2]}
ProcChoices == {NoProcs, Procs(0), Procs(1), Procs(2), Procs(-1)}
FunctionInputs == {"None", "function", "method", "raising function", "callable object", "int"}

(***************************************************************************)
(* The property setters, lines 155-241.                                    *)
(***************************************************************************)
Assigned(field, valid) == [field |-> field, valid |-> valid, accepted |-> TRUE, ops |-> budget.ops]
Rejected(field) == [field |-> field, valid |-> FALSE, accepted |-> FALSE, ops |-> budget.ops]

Setter ==
    /\ Idle /\ budget.sets > 0
    /\ budget' = [budget EXCEPT !.sets = @ - 1]
    /\ UNCHANGED <<op, expansion, outcome, gen, range_calls, generated>>

\* ranges setter, lines 155-160, given a list of levels
SetRanges ==
    /\ Setter
    /\ \E r \in BasicRanges :
          /\ ranges' = r
          /\ lastSet' = Assigned("ranges", r # <<>>)
    /\ cache' = None
    /\ UNCHANGED <<params, masks, function, function_kwargs, nprocs>>

\* ranges setter given a single dictionary: lines 157-158 wrap it in a list
SetRangesDict ==
    /\ Setter
    /\ \E r \in {q \in BasicRanges : Len(q) = 1} :
          /\ ranges' = <<r[1]>>
          /\ lastSet' = Assigned("ranges", TRUE)
    /\ cache' = None
    /\ UNCHANGED <<params, masks, function, function_kwargs, nprocs>>

\* function setter, lines 172-176
SetFunction ==
    /\ Setter
    /\ \E f \in FunctionInputs :
          IF f \notin {"None", "function", "method", "raising function"}
          THEN lastSet' = Rejected("function") /\ UNCHANGED function
          ELSE lastSet' = Assigned("function", TRUE) /\ function' = f
    /\ UNCHANGED <<ranges, params, masks, function_kwargs, nprocs, cache>>

\* function_kwargs setter, lines 188-192, given a dictionary
SetFunctionKwargs ==
    /\ Setter
    /\ \E k \in KwargChoices : function_kwargs' = k
    /\ lastSet' = Assigned("function_kwargs", TRUE)
    /\ UNCHANGED <<ranges, params, masks, function, nprocs, cache>>

\* function_kwargs setter given anything else: line 191 raises
SetFunctionKwargsRejected ==
    /\ Setter
    /\ lastSet' = Rejected("function_kwargs")
    /\ UNCHANGED <<config, cache>>

\* a params setter that keeps the cached array
SetParamsKeepsCache ==
    /\ Setter
    /\ \E v \in ParamChoices : params' = v
    /\ lastSet' = Assigned("params", TRUE)
    /\ UNCHANGED <<ranges, masks, function, function_kwargs, nprocs, cache>>

\* params setter, lines 206-211, given a dictionary
SetParams ==
    /\ Setter
    /\ \E v \in ParamChoices : params' = v
    /\ lastSet' = Assigned("params", TRUE)
    /\ cache' = None
    /\ UNCHANGED <<ranges, masks, function, function_kwargs, nprocs>>

\* params setter given anything else: line 209 raises
SetParamsRejected ==
    /\ Setter
    /\ lastSet' = Rejected("params")
    /\ UNCHANGED <<config, cache>>

\* masks setter, lines 224-226
SetMasks ==
    /\ Setter
    /\ \E m \in BasicMasks \cup {[kind |-> "tuple", fns |-> <<"deny">>]} : masks' = m
    /\ lastSet' = Assigned("masks", TRUE)
    /\ UNCHANGED <<ranges, params, function, function_kwargs, nprocs, cache>>

\* nprocs setter, lines 239-241
SetNprocs ==
    /\ Setter
    /\ \E n \in ProcChoices : nprocs' = n
    /\ lastSet' = Assigned("nprocs", TRUE)
    /\ UNCHANGED <<ranges, params, masks, function, function_kwargs, cache>>

(***************************************************************************)
(* __iter__, lines 358-378: a generator.  Its first next() runs the        *)
(* expansion and chooses the mode; every next() hands out one result.      *)
(***************************************************************************)
\* __index_to_dict(index, ranges_eval), lines 350-356
IndexToDict(index, a) == [p \in Fields(a) |-> a.data[p][index]]

\* what the consumer receives for an index: the dictionary itself, or the value of
\* f(params=dictionary, **kwargs), kept as the call that produces it
Result(index, f, dict, kwargs) ==
    [index |-> index, function |-> f, params |-> dict,
     kwargs |-> IF f = "None" THEN Empty ELSE kwargs]

\* line 362 with "or" in place of "and"
ParallelEither(n, f) == ~(~n.none /\ n.n \in {0, 1}) \/ f # "None"

\* line 362
Parallel(n, f) == ~(~n.none /\ n.n \in {0, 1}) /\ f # "None"

\* the first next() reaches line 359
IterStart ==
    /\ Idle /\ budget.ops > 0
    /\ gen.state \notin {"seq", "par"}
    /\ budget' = [budget EXCEPT !.ops = @ - 1]
    /\ StartExpansion("iter")
    /\ gen' = [NoGen EXCEPT !.state = "expanding"]
    /\ UNCHANGED <<config, cache, allocated, outcome, range_calls, generated, lastSet>>

\* a parallel branch that hands no base_kwargs to the dispatcher
IterExpandedDropsKwargs ==
    /\ op = "iter" /\ gen.state = "expanding" /\ Expanded
    /\ stack' = <<>>
    /\ gen' = IF Parallel(nprocs, function)
              THEN [state |-> "par", grid |-> grid, indicies |-> indicies, pos |-> 0,
                    pending |-> {[index |-> indicies[j], function |-> function,
                                  params |-> IndexToDict(indicies[j], grid),
                                  kwargs |-> Empty] : j \in DOMAIN indicies},
                    yielded |-> <<>>, called |-> <<>>, resolved |-> resolved]
              ELSE [state |-> "seq", grid |-> grid, indicies |-> indicies, pos |-> 0,
                    pending |-> {}, yielded |-> <<>>, called |-> <<>>, resolved |-> resolved]
    /\ UNCHANGED <<config, cache, op, supplied, grid, allocated, indicies, ctx, outcome,
                   range_calls, generated, resolved, maskLog, lastSet, budget>>

\* lines 359-367 once the expansion has returned: the mode is chosen and, in
\* parallel mode, every task is built and handed to AsyncParallelMap
IterExpanded ==
    /\ op = "iter" /\ gen.state = "expanding" /\ Expanded
    /\ stack' = <<>>
    /\ gen' = IF Parallel(nprocs, function)
              THEN [state |-> "par", grid |-> grid, indicies |-> indicies, pos |-> 0,
                    pending |-> {[index |-> indicies[j], function |-> function,
                                  params |-> IndexToDict(indicies[j], grid),
                                  kwargs |-> function_kwargs] : j \in DOMAIN indicies},
                    yielded |-> <<>>, called |-> <<>>, resolved |-> resolved]
              ELSE [state |-> "seq", grid |-> grid, indicies |-> indicies, pos |-> 0,
                    pending |-> {}, yielded |-> <<>>, called |-> <<>>, resolved |-> resolved]
    /\ UNCHANGED <<config, cache, op, supplied, grid, allocated, indicies, ctx, outcome,
                   range_calls, generated, resolved, maskLog, lastSet, budget>>

\* the user's function: "raising function" raises when the x it is given is 1
Fails(f, dict, kwargs) == f = "raising function" /\ "x" \in DOMAIN dict /\ dict["x"] = 1

\* an exception of the function leaves the generator, which is then finished
FunctionRaised == Raised("iter", "function error", "")

\* a sequential pass that swallows the exception of the function and goes on
NextSequentialSkipsFailure ==
    /\ gen.state = "seq" /\ op \in {"iter", "none"}
    /\ gen.pos < Len(gen.indicies)
    /\ LET i == gen.indicies[gen.pos + 1]
           dict == IndexToDict(i, gen.grid)
           called == IF function = "None" THEN gen.called ELSE Append(gen.called, i)
       IN  IF Fails(function, dict, function_kwargs)
           THEN gen' = [gen EXCEPT !.pos = @ + 1, !.called = called]
           ELSE gen' = [gen EXCEPT !.pos = @ + 1, !.called = called,
                                   !.yielded = Append(@, Result(i, function, dict, function_kwargs))]
    /\ op' = "none"
    /\ UNCHANGED <<config, cache, expansion, outcome, range_calls, generated, lastSet, budget>>

\* lines 374-378: one result of a sequential pass; the function is called at line 378
NextSequential ==
    /\ gen.state = "seq" /\ op \in {"iter", "none"}
    /\ gen.pos < Len(gen.indicies)
    /\ LET i == gen.indicies[gen.pos + 1]
           dict == IndexToDict(i, gen.grid)
           called == IF function = "None" THEN gen.called ELSE Append(gen.called, i)
       IN  IF Fails(function, dict, function_kwargs)
           THEN /\ gen' = [gen EXCEPT !.state = "raised", !.called = called]
                /\ outcome' = FunctionRaised
           ELSE /\ gen' = [gen EXCEPT !.pos = @ + 1, !.called = called,
                                      !.yielded = Append(@, Result(i, function, dict, function_kwargs))]
                /\ UNCHANGED outcome
    /\ op' = "none"
    /\ UNCHANGED <<config, cache, expansion, range_calls, generated, lastSet, budget>>

\* lines 367-368: AsyncParallelMap.iterate hands back the result of some task, or
\* the exception of its call
NextParallel ==
    /\ gen.state = "par" /\ op \in {"iter", "none"}
    /\ \E t \in gen.pending :
          IF Fails(t.function, t.params, t.kwargs)
          THEN /\ gen' = [gen EXCEPT !.state = "raised", !.pending = @ \ {t}]
               /\ outcome' = FunctionRaised
          ELSE /\ gen' = [gen EXCEPT !.pending = @ \ {t},
                                     !.yielded = Append(@, Result(t.index, t.function, t.params, t.kwargs))]
               /\ UNCHANGED outcome
    /\ op' = "none"
    /\ UNCHANGED <<config, cache, expansion, range_calls, generated, lastSet, budget>>

\* the generator's loop ends: StopIteration
IterStop ==
    /\ op \in {"iter", "none"}
    /\ \/ gen.state = "seq" /\ ~(gen.pos < Len(gen.indicies))
       \/ gen.state = "par" /\ gen.pending = {}
    /\ gen' = [gen EXCEPT !.state = "done"]
    /\ op' = "none"
    /\ UNCHANGED <<config, cache, expansion, outcome, range_calls, generated, lastSet, budget>>

(***************************************************************************)
(* The expander alone: an iterator constructed with default function,      *)
(* function_kwargs and nprocs, on which ranges_expand() and the            *)
(* ranges_eval property are used.                                          *)
(***************************************************************************)
Constructed ==
    /\ cache = None
    /\ op = "none"
    /\ stack = <<>>
    /\ supplied = None
    /\ grid = None
    /\ allocated = 0
    /\ indicies = <<>>
    /\ ctx = Empty
    /\ outcome = NoOutcome
    /\ gen = NoGen
    /\ range_calls = 0
    /\ generated = 0
    /\ resolved = Empty
    /\ maskLog = <<>>
    /\ lastSet = NoSet
    /\ budget = [ops |-> MaxOps, sets |-> MaxSets]

InitExpand ==
    /\ \/ ranges \in RichRanges /\ masks = NoMasks
       \/ ranges \in PlainRanges /\ masks \in MaskChoices \ {NoMasks}
    /\ params \in ParamChoices
    /\ function = "None"
    /\ function_kwargs = Empty
    /\ nprocs = NoProcs
    /\ Constructed

NextExpand ==
    \/ RangesExpand
    \/ GetRangesEvalExpand
    \/ GetRangesEvalCached
    \/ SetRangesEval
    \/ Enter
    \/ UpdateIndex
    \/ Recurse
    \/ Leaf
    \/ Return
    \/ RangesExpandReturn
    \/ GetRangesEvalReturn
    \/ IterStart
    \/ IterExpanded
    \/ NextSequential
    \/ IterStop

SpecExpand == InitExpand /\ [][NextExpand]_vars

(***************************************************************************)
(* The whole iterator: constructed with any valid arguments (the ranges    *)
(* setter accepts an empty list), then configured and used in any order.   *)
(***************************************************************************)
Init ==
    /\ ranges \in BasicRanges
    /\ params \in ParamChoices
    /\ masks \in BasicMasks
    /\ function \in {"None", "function"}
    /\ function_kwargs = Empty
    /\ nprocs \in {NoProcs, Procs(1), Procs(2)}
    /\ Constructed

Next ==
    \/ NextExpand
    \/ NextParallel
    \/ SetRanges
    \/ SetRangesDict
    \/ SetFunction
    \/ SetFunctionKwargs
    \/ SetFunctionKwargsRejected
    \/ SetParams
    \/ SetParamsRejected
    \/ SetMasks
    \/ SetNprocs

Spec == Init /\ [][Next]_vars

(***************************************************************************)
(* Passes with a function: an iterator constructed with a function, any    *)
(* function_kwargs and any nprocs, and used without being reconfigured.    *)
(***************************************************************************)
PassRanges == {r \in PlainRanges : Len(r) <= MaxPassLevels}

InitPass ==
    /\ ranges \in PassRanges
    /\ params \in ParamChoices
    /\ masks \in BasicMasks
    /\ function \in {"function", "raising function"}
    /\ function_kwargs \in KwargChoices
    /\ nprocs \in ProcChoices
    /\ Constructed

NextPass == NextExpand \/ NextParallel

SpecPass == InitPass /\ [][NextPass]_vars

(***************************************************************************)
(* A resumed sweep: the iterator is constructed with ranges_eval set to    *)
(* the Grid an earlier sweep of the first level returned (or with none).   *)
(* The earlier sweep made the first call of the resolver.                  *)
(***************************************************************************)
\* what ranges_expand() returns for the first level alone, at the resolver's first call
FirstLevelGrid(r, prm) ==
    LET pam_values == P_range(Keys(r[1]), TParams(prm, r[1], Empty), 0)
        a == ExtendRanges(None, Keys(r[1]), Len(pam_values[Last(Keys(r[1]))]), 1)
    IN  [a EXCEPT !.data = [p \in DOMAIN a.data |->
                              [idx \in DOMAIN a.data[p] |-> pam_values[p][idx[1] + 1]]]]

ResumeRanges == {Stochastic(r) : r \in PlainRanges \cup NaNRanges}

InitResume ==
    /\ ranges \in ResumeRanges
    /\ params \in ParamChoices
    /\ masks = NoMasks
    /\ function = "None"
    /\ function_kwargs = Empty
    /\ nprocs = NoProcs
    /\ cache \in {None} \cup {a \in {FirstLevelGrid(ranges, params)} : \A p \in Fields(a) : ~AnyNaN(a, p)}
    /\ op = "none"
    /\ stack = <<>>
    /\ supplied = None
    /\ grid = None
    /\ allocated = 1
    /\ indicies = <<>>
    /\ ctx = Empty
    /\ outcome = NoOutcome
    /\ gen = NoGen
    /\ range_calls = 1
    /\ generated = 1
    /\ resolved = Empty
    /\ maskLog = <<>>
    /\ lastSet = NoSet
    /\ budget = [ops |-> MaxOps, sets |-> MaxSets]

SpecResume == InitResume /\ [][NextExpand]_vars

(***************************************************************************)
(* Notions the properties use.                                             *)
(***************************************************************************)
\* the last expansion returned, and no other has started since
Expansion == stack = <<>> /\ resolved # Empty
Completed(kind) == op = "none" /\ Expansion /\ outcome.status = "ok" /\ outcome.op = kind

\* the value counts per level, when every call of a level resolved every one of its
\* parameters to the same number of values
LevelCount(res, L) == Len(res[Zeros(L)][CHOOSE p \in DOMAIN res[Zeros(L)] : TRUE])
Counts(res, N) == [L \in 1..N |-> LevelCount(res, L - 1)]
Uniform(res, N) ==
    /\ \A L \in 0..(N - 1) : Zeros(L) \in DOMAIN res
    /\ \A k \in DOMAIN res : \A p \in DOMAIN res[k] : Len(res[k][p]) = LevelCount(res, Len(k))

\* the cartesian product [0,n_1) x ... x [0,n_N) in lexicographic order
RECURSIVE LexProduct(_)
LexProduct(ns) ==
    IF ns = <<>> THEN << <<>> >>
    ELSE LET rest == LexProduct(Tail(ns))
         IN  [j \in 1..(ns[1] * Len(rest)) |->
                 <<(j - 1) \div Len(rest)>> \o rest[((j - 1) % Len(rest)) + 1]]

YieldedIndices(g) == [j \in DOMAIN g.yielded |-> g.yielded[j].index]

\* the leaf indices of an expansion: full-depth indices for which the resolver
\* returned a value of every parameter of the deepest level
Leaves(res, N) ==
    {k \o <<i>> : k \in {q \in DOMAIN res : Len(q) = N - 1}, i \in 0..(MaxCount + 1)}
MinLen(pam_values) ==
    CHOOSE n \in 0..(MaxCount + 2) :
        /\ \A p \in DOMAIN pam_values : n <= Len(pam_values[p])
        /\ \E p \in DOMAIN pam_values : n = Len(pam_values[p])
IsLeaf(res, N, leaf) ==
    /\ Len(leaf) = N /\ Front(leaf) \in DOMAIN res
    /\ Last(leaf) < MinLen(res[Front(leaf)])

FullGrid(a) == a # None /\ \A p \in Fields(a) : ~AnyNaN(a, p)

(***************************************************************************)
(* C1.  With masks None and N >= 1 levels that resolve to n_0..n_{N-1}     *)
(* values under every prefix, ranges_expand returns exactly the index      *)
(* tuples of [0,n_0) x ... x [0,n_{N-1}), each once, in lexicographic      *)
(* order (outermost level slowest), and a sequential pass yields them in   *)
(* that order; for one level these are n_0 results.                        *)
(***************************************************************************)
C1_FullProduct ==
    masks.kind = "None" =>
      /\ (Completed("ranges_expand") /\ Uniform(resolved, Len(ranges)))
            => outcome.indicies = LexProduct(Counts(resolved, Len(ranges)))
      /\ (gen.state = "done" /\ Uniform(gen.resolved, Len(ranges)))
            => /\ YieldedIndices(gen) = LexProduct(Counts(gen.resolved, Len(ranges)))
               /\ (Len(ranges) = 1 => Len(gen.yielded) = LevelCount(gen.resolved, 0))

C1_Witness ==
    /\ masks.kind = "None" /\ Len(ranges) = MaxLevels
    /\ Completed("ranges_expand") /\ Uniform(resolved, Len(ranges))
    /\ Counts(resolved, Len(ranges)) = [L \in 1..MaxLevels |-> IF L = 2 THEN 1 ELSE MaxCount]
    /\ gen.state = "done" /\ Len(gen.yielded) = MaxCount * MaxCount

(***************************************************************************)
(* C2.  After a successful expansion started from an empty cache, the Grid *)
(* cell of every parameter p of level L at every leaf index (i_0..i_{N-1}) *)
(* is the i_L-th value the resolver returned for p under the prefix        *)
(* (i_0..i_{L-1}), and is not NaN: growing the Grid and writing later      *)
(* prefixes loses nothing.                                                 *)
(***************************************************************************)
C2_GridHoldsResolved ==
    (Expansion /\ supplied = None) =>
        \A leaf \in Leaves(resolved, Len(ranges)) :
            IsLeaf(resolved, Len(ranges), leaf) =>
                \A L \in 1..Len(ranges) :
                    LET returned == resolved[SubSeq(leaf, 1, L - 1)]
                    IN  \A p \in DOMAIN returned :
                            /\ grid.data[p][leaf] = returned[p][leaf[L] + 1]
                            /\ ~IsNaN(grid.data[p][leaf])

C2_Witness ==
    /\ Expansion /\ supplied = None /\ Len(ranges) = MaxLevels
    /\ grid.shape = [L \in 1..MaxLevels |-> MaxCount]
    /\ \E leaf \in Leaves(resolved, Len(ranges)) :
          /\ IsLeaf(resolved, Len(ranges), leaf)
          /\ \A L \in 1..Len(ranges) : leaf[L] = MaxCount - 1
          /\ grid.data["y"][leaf] # grid.data["y"][Zeros(MaxLevels)]

(***************************************************************************)
(* C3.  With a list of two or more masks, a leaf index is in the list      *)
(* ranges_expand returns if and only if at least one mask accepts it, and  *)
(* the retained leaves keep their depth-first order.                       *)
(***************************************************************************)
C3_AnyMaskRetains ==
    (masks.kind = "list" /\ Len(masks.fns) >= 2 /\ Completed("ranges_expand")
        /\ Uniform(resolved, Len(ranges))) =>
        LET accepted(index) == \E j \in DOMAIN masks.fns : Mask(masks.fns[j], index, ranges, params)
        IN  outcome.indicies = SelectSeq(LexProduct(Counts(resolved, Len(ranges))), accepted)

C3_Witness ==
    /\ masks = MaskList(<<"even", "first">>) /\ Completed("ranges_expand")
    /\ Len(ranges) = 2
    /\ outcome.indicies = << <<0, 0>>, <<0, 1>>, <<1, 1>> >>

(***************************************************************************)
(* C4.  With no function configured, the dictionary of every result holds  *)
(* every key of the background params that is not a range parameter, with  *)
(* its params value.                                                       *)
(***************************************************************************)
RangeParams(rngs) == UNION {KeySet(rngs[L]) : L \in DOMAIN rngs}

C4_BackgroundInResults ==
    \A j \in DOMAIN gen.yielded :
        gen.yielded[j].function = "None" =>
            \A key \in DOMAIN params \ RangeParams(ranges) :
                /\ key \in DOMAIN gen.yielded[j].params
                /\ gen.yielded[j].params[key] = params[key]

(***************************************************************************)
(* C5.  An accepted assignment to ranges or to params empties the cached   *)
(* Grid, so the next expansion is handed no Grid; an assignment to masks,  *)
(* function, function_kwargs or nprocs leaves the cached Grid as it is.    *)
(***************************************************************************)
C5_SettersAndCache ==
    [][/\ budget'.sets < budget.sets =>
            /\ (lastSet'.accepted /\ lastSet'.field \in {"ranges", "params"}) => cache' = None
            /\ lastSet'.field \in {"masks", "function", "function_kwargs", "nprocs"} => cache' = cache
       /\ (budget'.ops < budget.ops /\ lastSet.ops = budget.ops /\ lastSet.accepted
             /\ lastSet.field \in {"ranges", "params"})
            => (op' # "none" /\ supplied' = None)
      ]_vars

C5_Witness ==
    /\ outcome.op = "ranges_eval" /\ outcome.status = "ok"
    /\ lastSet.field = "params" /\ lastSet.accepted /\ lastSet.ops = budget.ops + 1
    /\ op = "ranges_expand" /\ supplied = None /\ cache = None

(***************************************************************************)
(* C6.  As claimed: while an expansion runs on a cached Grid that has no   *)
(* NaN in any field, the count of resolver calls does not increase.        *)
(***************************************************************************)
C6_NoResolverCall ==
    [][(op # "none" /\ FullGrid(supplied)) => range_calls' = range_calls]_vars

(***************************************************************************)
(* C6, amended.  While an expansion runs on a cached Grid that has no NaN  *)
(* in any field, the resolver is still called, once per level call, but    *)
(* every parameter reaches it as its cached values: the count of           *)
(* descriptors turned into values does not increase.                       *)
(***************************************************************************)
C6_NoDescriptorResolved ==
    [][(op # "none" /\ FullGrid(supplied)) =>
            /\ generated' = generated
            /\ (stack # <<>> /\ Top.pc = "enter") => range_calls' = range_calls + 1
      ]_vars

C6_Witness ==
    /\ Completed("ranges_expand") /\ FullGrid(supplied) /\ Len(ranges) = MaxLevels
    /\ Len(outcome.indicies) = MaxCount * MaxCount * MaxCount
    /\ range_calls > generated

(***************************************************************************)
(* C7.  With a resolver that returns other values at every call but hands  *)
(* back concrete values given to it, an expansion on a supplied Grid that  *)
(* has no NaN and one dimension per level returns a Grid equal cell for    *)
(* cell to the supplied one, and the index list the Grid's shape and the   *)
(* masks determine.                                                        *)
(***************************************************************************)
C7_ReplayReturnsSupplied ==
    (Expansion /\ FullGrid(supplied) /\ Ndim(supplied) = Len(ranges)) =>
        LET kept(index) == Retained(masks, index, ranges, params)
        IN  /\ Content(grid) = Content(supplied)
            /\ indicies = SelectSeq(LexProduct(supplied.shape), kept)
            /\ (op = "none" /\ outcome.op \in {"ranges_expand", "ranges_eval"})
                  => (outcome.status = "ok" /\ Content(outcome.grid) = Content(supplied))

C7_Witness ==
    /\ Completed("ranges_expand") /\ FullGrid(supplied) /\ Ndim(supplied) = Len(ranges)
    /\ Len(ranges) = MaxLevels /\ supplied.shape = [L \in 1..MaxLevels |-> MaxCount]
    /\ \A L \in DOMAIN ranges : ranges[L][1].range.stoch
    /\ range_calls > 2 * MaxLevels

(***************************************************************************)
(* C8.  If two parameters of one level resolve to sequences of different   *)
(* lengths, the expansion fails with the error that names the parameter    *)
(* and the level's ranges, and never returns an index list.                *)
(***************************************************************************)
Mismatch(res) ==
    \E k \in DOMAIN res : \E p, q \in DOMAIN res[k] : Len(res[k][p]) # Len(res[k][q])

C8_MismatchRaises ==
    (Mismatch(resolved) /\ op = "none") =>
        /\ ~Expansion
        /\ outcome.status = "error"
        /\ outcome.error = "ValueError: not consistent in count"

(***************************************************************************)
(* C9.  A call of a level never gets past an index at which a resolved     *)
(* value is NaN: the step that processes that index raises, nothing is     *)
(* written, descended into, masked or retained for a later index of that   *)
(* call, and the expansion returns neither a Grid nor an index list.       *)
(***************************************************************************)
Processed(f) ==
    IF f.pc = "loop" THEN f.i ELSE IF f.pc \in {"visit", "wait"} THEN f.i + 1 ELSE 0
NaNAt(f, i) == \E p \in DOMAIN f.pam_values : i < Len(f.pam_values[p]) /\ IsNaN(f.pam_values[p][i + 1])
Later(f, index) ==
    /\ Len(index) > Len(f.iteration) /\ IsPrefix(f.iteration, index)
    /\ index[Len(f.iteration) + 1] > f.i
BadNumber == op = "none" /\ outcome.status = "error" /\ outcome.error = "ValueError: Bad number"

C9_NoStepPastNaN ==
    /\ \A n \in DOMAIN stack : \A i \in 0..(Processed(stack[n]) - 1) : ~NaNAt(stack[n], i)
    /\ BadNumber =>
        /\ Top.pc = "loop" /\ IsNaN(Top.pam_values[outcome.param][Top.i + 1])
        /\ outcome.grid = None /\ outcome.indicies = <<>>
        /\ \A j \in DOMAIN indicies : ~Later(Top, indicies[j])
        /\ \A j \in DOMAIN maskLog : ~Later(Top, maskLog[j].index)
        /\ \A k \in DOMAIN resolved : ~Later(Top, k)
        /\ supplied = None =>
              \A p \in DOMAIN Top.pam_values : \A index \in Indices(grid.shape) :
                  Later(Top, index) => IsNaN(grid.data[p][index])

C9_NaNAborts ==
    /\ []C9_NoStepPastNaN
    /\ [][(op # "none" /\ stack # <<>> /\ Top.pc = "loop" /\ Top.i < Top.count /\ NaNAt(Top, Top.i))
            => (op' = "none" /\ outcome'.status = "error" /\ stack' = stack)]_vars

C9_Witness ==
    /\ BadNumber /\ supplied = None /\ Len(ranges) = 2 /\ grid.shape = <<MaxCount, MaxCount>>
    /\ Len(stack) = 2 /\ Top.i = 0 /\ Top.count = MaxCount
    /\ stack[1].i = 1 /\ outcome.param = "y"
    /\ ~IsNaN(grid.data["y"][<<0, 1>>]) /\ IsNaN(grid.data["y"][<<1, 0>>])

(***************************************************************************)
(* C10.  Every invalid configuration value is rejected when it is          *)
(* assigned, so that no expansion and no pass ever starts on an invalid    *)
(* configuration (here: an empty list of levels).                          *)
(***************************************************************************)
C10_InvalidRejected ==
    /\ lastSet.accepted => lastSet.valid
    /\ op # "none" => ranges # <<>>


(***************************************************************************)
(* C11.  When a pass chooses its mode it becomes parallel (the task list   *)
(* is built, one task per retained index, and handed to the dispatcher)    *)
(* exactly when a function is configured and nprocs is neither 0 nor 1;    *)
(* otherwise it is sequential, and a sequential pass never holds a task.   *)
(***************************************************************************)
ModeChosen == gen.state = "expanding" /\ gen'.state \in {"seq", "par"}

C11_ModeSelection ==
    /\ [](gen.state = "seq" => gen.pending = {})
    /\ [][ModeChosen =>
            /\ gen'.state = "par" <=>
                  (function # "None" /\ (nprocs.none \/ nprocs.n \notin {0, 1}))
            /\ gen'.state = "par" =>
                  {t.index : t \in gen'.pending} = {indicies[j] : j \in DOMAIN indicies}
            /\ gen'.state = "seq" => gen'.pending = {}
          ]_vars

C11_Witness ==
    /\ gen.state = "par" /\ Len(gen.yielded) = 1 /\ gen.pending # {}
    /\ function # "None" /\ ~nprocs.none /\ nprocs.n = -1
    /\ lastSet.field = "nprocs" /\ lastSet.ops > budget.ops


(***************************************************************************)
(* C12.  With a fixed configuration, a deterministic resolver and a        *)
(* deterministic function, a pass that ends, sequential or parallel, has   *)
(* yielded exactly one (index, result) pair per retained index: the pairs  *)
(* the configuration determines, whatever the mode and the order; in a     *)
(* parallel pass every retained index is in exactly one task, pending or   *)
(* already answered.                                                       *)
(***************************************************************************)
ExpectedResults ==
    {Result(gen.indicies[j], function, IndexToDict(gen.indicies[j], gen.grid), function_kwargs)
        : j \in DOMAIN gen.indicies}
YieldedResults == {gen.yielded[j] : j \in DOMAIN gen.yielded}

C12_SameResults ==
    /\ gen.state = "done" =>
          /\ YieldedResults = ExpectedResults
          /\ Len(gen.yielded) = Len(gen.indicies)
          /\ Cardinality(YieldedResults) = Len(gen.indicies)
    /\ gen.state = "par" =>
          /\ gen.pending \cup YieldedResults = ExpectedResults
          /\ gen.pending \cap YieldedResults = {}
          /\ Cardinality(gen.pending) + Len(gen.yielded) = Len(gen.indicies)

C12_Witness ==
    /\ gen.state = "done" /\ nprocs = Procs(2) /\ function = "function"
    /\ function_kwargs # Empty /\ masks = NoMasks
    /\ Len(gen.yielded) = MaxCount * MaxCount
    /\ gen.yielded[1].index # gen.indicies[1]

(***************************************************************************)
(* C13.  In a sequential pass with a function, the function has been       *)
(* called exactly for the indices pulled so far, once each and in order;   *)
(* a pull whose call fails raises at that pull, with the earlier results   *)
(* delivered, no second call for the index and no call for a later index.  *)
(***************************************************************************)
SequentialConfig == function # "None" /\ ~nprocs.none /\ nprocs.n \in {0, 1}

C13_CalledAsPulled ==
    (SequentialConfig /\ gen.state \in {"seq", "raised", "done"}) =>
        /\ Len(gen.called) <= Len(gen.indicies)
        /\ gen.called = SubSeq(gen.indicies, 1, Len(gen.called))
        /\ YieldedIndices(gen) = SubSeq(gen.indicies, 1, Len(gen.yielded))
        /\ gen.state \in {"seq", "done"} => Len(gen.called) = Len(gen.yielded)
        /\ gen.state = "raised" =>
              /\ Len(gen.called) = Len(gen.yielded) + 1
              /\ Fails(function, IndexToDict(Last(gen.called), gen.grid), function_kwargs)

C13_LazyFailure ==
    /\ []C13_CalledAsPulled
    /\ [][(SequentialConfig /\ gen.state = "seq" /\ gen' # gen /\ gen.pos < Len(gen.indicies)
             /\ Fails(function, IndexToDict(gen.indicies[gen.pos + 1], gen.grid), function_kwargs))
            => (gen'.state = "raised" /\ gen'.yielded = gen.yielded
                  /\ Len(gen.yielded) = gen.pos)]_vars

C13_Witness ==
    /\ SequentialConfig /\ gen.state = "raised" /\ masks = NoMasks
    /\ Len(gen.yielded) = MaxCount /\ Len(gen.called) = MaxCount + 1
    /\ Len(gen.indicies) = MaxCount * MaxCount


(***************************************************************************)
(* C14.  Whenever the resolver is about to be called for level L under a   *)
(* prefix, every value of the context that this level's descriptors do not *)
(* replace is a background value of params or the value a level above L    *)
(* resolved at that prefix: no value of a deeper level, written while      *)
(* descending an earlier sibling branch, is in it.                         *)
(***************************************************************************)
C14_ContextFromPath ==
    (op # "none" /\ stack # <<>> /\ Top.pc = "enter") =>
        \A key \in DOMAIN ctx \ KeySet(ranges[Top.level + 1]) :
            IF \E L \in 1..Top.level : key \in KeySet(ranges[L])
            THEN \A L \in 1..Top.level :
                    key \in KeySet(ranges[L]) =>
                        ctx[key] = resolved[SubSeq(Top.iteration, 1, L - 1)][key][Top.iteration[L] + 1]
            ELSE key \in DOMAIN params /\ ctx[key] = params[key]


(***************************************************************************)
(* C15.  When masks is a list, the mask calls made so far are, leaf by     *)
(* leaf in depth-first order, one call of every mask of the list; each     *)
(* call was given a complete index and a context in which every range      *)
(* parameter of every level has the value resolved for that leaf's index   *)
(* at its level, which is the value of the Grid cell at that leaf.         *)
(***************************************************************************)
DeclaredCounts == [L \in DOMAIN ranges |-> ranges[L][1].range.count]

C15_MasksOncePerLeaf ==
    masks.kind = "list" =>
        LET n == Len(masks.fns)
            leaves == LexProduct(DeclaredCounts)
        IN  /\ \A q \in DOMAIN maskLog :
                  LET e == maskLog[q] IN
                  /\ Len(e.index) = Len(ranges)
                  /\ e.mask = masks.fns[((q - 1) % n) + 1]
                  /\ e.index = leaves[((q - 1) \div n) + 1]
                  /\ \A L \in DOMAIN ranges : \A p \in KeySet(ranges[L]) :
                        /\ e.params[p] = resolved[SubSeq(e.index, 1, L - 1)][p][e.index[L] + 1]
                        /\ e.params[p] = grid.data[p][e.index]
            /\ Expansion => Len(maskLog) = n * Len(leaves)

C15_Witness ==
    /\ Completed("ranges_expand") /\ masks = MaskList(<<"first", "even">>)
    /\ Len(ranges) = MaxLevels /\ \A L \in DOMAIN ranges : DeclaredCounts[L] = MaxCount
    /\ Len(maskLog) = 2 * MaxCount * MaxCount * MaxCount


(***************************************************************************)
(* C16.  As claimed: throughout an expansion started from an empty cache   *)
(* the Grid has one dimension per level entered so far, the size of        *)
(* dimension L is the value count of every call of level L, and no step    *)
(* removes a dimension or makes one smaller.                               *)
(***************************************************************************)
Entered(f) == f.pc # "enter"
LevelsEntered == {Len(k) + 1 : k \in DOMAIN resolved}
FromEmpty == supplied = None /\ resolved # Empty /\ (op # "none" \/ Expansion)

GridDimensions ==
    /\ Ndim(grid) = Cardinality(LevelsEntered)
    /\ \A L \in LevelsEntered : L <= Ndim(grid)

C16_DimensionIsEveryCount ==
    FromEmpty =>
        /\ GridDimensions
        /\ \A n \in DOMAIN stack :
              Entered(stack[n]) => grid.shape[stack[n].level + 1] = stack[n].count


(***************************************************************************)
(* C16, amended.  Throughout an expansion started from an empty cache the  *)
(* Grid has one dimension per level entered so far, the size of dimension  *)
(* L is the value count of the first call of level L (the call that        *)
(* appended the dimension), whatever count a later call of the level       *)
(* resolves to, and no step removes a dimension or changes its size.       *)
(***************************************************************************)
CountOf(k) == Len(resolved[k][Last(Keys(ranges[Len(k) + 1]))])
FirstCount(L) == CountOf(Zeros(L - 1))

C16_FirstCounts ==
    FromEmpty =>
        /\ GridDimensions
        /\ \A L \in 1..Ndim(grid) : grid.shape[L] = FirstCount(L)

C16_DimensionIsFirstCount ==
    /\ []C16_FirstCounts
    /\ [][(op # "none" /\ op' \in {op, "none"} /\ supplied = None)
            => IsPrefix(grid.shape, grid'.shape)]_vars

C16_Witness ==
    /\ Completed("ranges_expand") /\ supplied = None /\ Ndim(grid) = MaxLevels
    /\ grid.shape[MaxLevels] = MaxCount
    /\ \E k \in DOMAIN resolved : Len(k) = MaxLevels - 1 /\ CountOf(k) < MaxCount


(***************************************************************************)
(* C17.  An assignment to a configuration field between two pulls of a     *)
(* pass in progress changes neither the mode of the pass nor any result    *)
(* the pass has still to yield.                                            *)
(***************************************************************************)
InProgress == gen.state \in {"seq", "par"}

\* the results a pass in progress hands out from here on, as the code stands
Remaining ==
    IF gen.state = "par" THEN gen.pending
    ELSE {Result(gen.indicies[j], function, IndexToDict(gen.indicies[j], gen.grid), function_kwargs)
            : j \in (gen.pos + 1)..Len(gen.indicies)}

C17_ConfigFixedAtStart ==
    [][(InProgress /\ budget'.sets < budget.sets /\ lastSet'.field # "ranges_eval")
         => (gen'.state = gen.state /\ Remaining' = Remaining)]_vars


(***************************************************************************)
(* C18.  When an expansion aborts on a NaN value, the cached Grid after    *)
(* the abort is the cached Grid the expansion was started with: None if    *)
(* it was None, and with every cell unchanged otherwise.                   *)
(***************************************************************************)
C18_AbortKeepsCache ==
    [][(op # "none" /\ op' = "none" /\ outcome'.status = "error"
          /\ outcome'.error = "ValueError: Bad number")
         => Content(cache') = Content(supplied)]_vars


(***************************************************************************)
(* C19.  For ranges whose values the configuration determines, an          *)
(* expansion with masks = [] retains no leaf and a pass yields nothing,    *)
(* an expansion with masks = None retains every leaf, and both return the  *)
(* same Grid: the one the ranges determine.                                *)
(***************************************************************************)
RECURSIVE PlainValue(_, _, _)
PlainValue(r, index, L) ==
    r[L][1].range.start + index[L] + (IF L > 1 THEN 3 * PlainValue(r, index, L - 1) ELSE 0)

PlainGrid(r) ==
    LET shape == [L \in DOMAIN r |-> r[L][1].range.count]
    IN  [shape |-> shape,
         names |-> [L \in DOMAIN r |-> r[L][1].param],
         data  |-> [p \in {r[L][1].param : L \in DOMAIN r} |->
                      [index \in Indices(shape) |->
                          PlainValue(r, index, CHOOSE L \in DOMAIN r : r[L][1].param = p)]]]

C19_EmptyMaskList ==
    (ranges \in PlainRanges /\ masks \in {NoMasks, MaskList(<<>>)}) =>
        /\ masks = MaskList(<<>>) => gen.yielded = <<>>
        /\ Expansion =>
              /\ Content(grid) = PlainGrid(ranges)
              /\ masks = MaskList(<<>>) => indicies = <<>>
              /\ masks = NoMasks => indicies = LexProduct(DeclaredCounts)
        /\ (Completed("ranges_expand") \/ Completed("ranges_eval")) =>
              Content(outcome.grid) = PlainGrid(ranges)
        /\ Completed("ranges_expand") => outcome.indicies = indicies

C19_Witness ==
    /\ masks = MaskList(<<>>) /\ Len(ranges) = MaxLevels
    /\ \A L \in DOMAIN ranges : DeclaredCounts[L] = MaxCount
    /\ Completed("ranges_expand") /\ outcome.indicies = <<>>
    /\ gen.state = "done" /\ gen.yielded = <<>>
    /\ Content(outcome.grid) = PlainGrid(ranges)


(***************************************************************************)
(* C20.  ranges_expand() and a pass never fill the cache: started on an    *)
(* empty cache they work on no Grid, resolve the descriptors of every      *)
(* level call anew and leave the cache empty.  The cache goes from empty   *)
(* to filled only when a read of the ranges_eval property returns or when  *)
(* ranges_eval is assigned.                                                *)
(***************************************************************************)
C20_Step ==
    /\ (cache = None /\ cache' # None) =>
          \/ op = "ranges_eval" /\ op' = "none" /\ outcome'.status = "ok"
          \/ budget'.sets < budget.sets /\ lastSet'.field = "ranges_eval"
    /\ (op = "none" /\ op' \in {"ranges_expand", "iter"} /\ cache = None) =>
          (supplied' = None /\ grid' = None /\ cache' = None)
    /\ (op \in {"ranges_expand", "iter"} /\ supplied = None /\ stack # <<>>
          /\ Top.pc = "enter" /\ stack' # stack) =>
          generated' > generated

C20_CacheOnlyByProperty ==
    /\ []((op \in {"ranges_expand", "iter"} /\ supplied = None) => cache = None)
    /\ [][C20_Step]_vars

C20_Witness ==
    /\ Completed("ranges_expand") /\ FullGrid(outcome.grid)
    /\ gen.state = "done" /\ Len(gen.yielded) > 1
    /\ budget.ops = 0 /\ budget.sets = MaxSets
    /\ supplied = None /\ cache = None /\ generated > Len(ranges)

====
